---------------------------- MODULE Spec2Model ----------------------------
(***************************************************************************)
(* A model of the agricultural robot's analysis components:                *)
(*   - SoilAnalyzer (src/src/soil_analyzer.py): threshold classification,   *)
(*     recommendation generation, the analyze_soil handler and the state    *)
(*     it keeps (latest_reading, the saved reading files);                  *)
(*   - ImageProcessor (src/utils/image_processing.py): vegetation          *)
(*     detection and plant-health scoring;                                  *)
(*   - DroneController (src/src/drone_controller.py): the mission steps,    *)
(*     the battery drain, return_to_home and emergency_stop.                *)
(*                                                                         *)
(* Numbers.  Soil values are Python floats.  They are modelled as integers *)
(* counting eighths (Unit = 8): every value k/8 of the model is a double,   *)
(* the differences value - optimal and max - min are exact in double        *)
(* arithmetic, and for the six rows of the threshold table the double       *)
(* (max - min) * 0.1 rounds to 6.0, 10.0, 2.5 (exact) or to the double next *)
(* to 0.2 (ph), which no k/8 separates from 0.2.  So the comparison         *)
(* abs(value - optimal) <= (max - min) * 0.1 is the integer comparison      *)
(* 10 * |value - optimal| <= max - min on every value of the model.         *)
(* Health metrics are exact rationals <<numerator, denominator>>; the       *)
(* rounding of the float operations is not modelled.                        *)
(***************************************************************************)
EXTENDS Integers, Sequences, FiniteSets, TLC

VARIABLES
    thresholds,      \* SoilAnalyzer.thresholds
    latest_reading,  \* SoilAnalyzer.latest_reading
    files,           \* data/soil_readings: the names of the saved reading files
    now,             \* datetime.now(), in whole seconds
    call,            \* per caller: the position and the locals of its call
    value,           \* _evaluate_condition: the value argument
    param,           \* _evaluate_condition: the row of the table passed as thresholds
    condition,       \* _evaluate_condition: the returned band
    reading,         \* _analyze_reading: the reading argument
    analysis,        \* _analyze_reading: what the call returned or raised
    image_array,     \* ImageProcessor: the image argument
    veg_mask,        \* detect_vegetation: the returned mask
    metrics,         \* analyze_plant_health: the returned metrics
    status,          \* DroneController.status
    home_coordinates,\* DroneController.home_coordinates
    drone,           \* the DroneController call in progress: position and locals
    missions         \* how many start_mission calls were made

vars == <<thresholds, latest_reading, files, now, call, value, param, condition,
          reading, analysis, image_array, veg_mask, metrics,
          status, home_coordinates, drone, missions>>

soilVars == <<thresholds, latest_reading, files, now, call>>
classifyVars == <<value, param, condition>>
evalVars == <<reading, analysis>>
imageVars == <<image_array, veg_mask, metrics>>
droneVars == <<status, home_coordinates, drone, missions>>

(***************************************************************************)
(* Python values                                                           *)
(***************************************************************************)
\* None, and a dict or array tagged with its type, so that "is None" is a
\* comparison of two records.
None == [type |-> "NoneType"]

\* A call's outcome: a returned value, or a raised exception; NotCalled before
\* the call.
Return(v) == [raised |-> "no", value |-> v]
Raise(e) == [raised |-> e, value |-> None]
NotCalled == [raised |-> "not called", value |-> None]

Abs(x) == IF x < 0 THEN -x ELSE x

\* A dict is a sequence of <<key, value>> pairs in insertion order, keys unique.
Keys(d) == {d[i][1] : i \in 1..Len(d)}
HasKey(d, k) == k \in Keys(d)
Lookup(d, k) == LET i == CHOOSE j \in 1..Len(d) : d[j][1] = k IN d[i][2]

(***************************************************************************)
(* SoilAnalyzer                                                            *)
(***************************************************************************)
\* Soil values count eighths.
Unit == 8

Params == <<"moisture", "ph", "nitrogen", "phosphorus", "potassium", "temperature">>
ParamSet == {Params[i] : i \in 1..Len(Params)}

\* The threshold table with the temperature row's optimal point mistyped
\* (52 for 25), outside its own range.
InitialThresholds_mistyped ==
    [moisture    |-> [min |-> 20 * Unit, max |-> 80 * Unit, optimal |-> 50 * Unit],
     ph          |-> [min |-> (55 * Unit) \div 10, max |-> (75 * Unit) \div 10,
                      optimal |-> (65 * Unit) \div 10],
     nitrogen    |-> [min |-> 0, max |-> 100 * Unit, optimal |-> 60 * Unit],
     phosphorus  |-> [min |-> 0, max |-> 100 * Unit, optimal |-> 45 * Unit],
     potassium   |-> [min |-> 0, max |-> 100 * Unit, optimal |-> 50 * Unit],
     temperature |-> [min |-> 10 * Unit, max |-> 35 * Unit, optimal |-> 52 * Unit]]

InitialThresholds ==
    [moisture    |-> [min |-> 20 * Unit, max |-> 80 * Unit, optimal |-> 50 * Unit],
     ph          |-> [min |-> (55 * Unit) \div 10, max |-> (75 * Unit) \div 10,
                      optimal |-> (65 * Unit) \div 10],
     nitrogen    |-> [min |-> 0, max |-> 100 * Unit, optimal |-> 60 * Unit],
     phosphorus  |-> [min |-> 0, max |-> 100 * Unit, optimal |-> 45 * Unit],
     potassium   |-> [min |-> 0, max |-> 100 * Unit, optimal |-> 50 * Unit],
     temperature |-> [min |-> 10 * Unit, max |-> 35 * Unit, optimal |-> 25 * Unit]]

\* _evaluate_condition with the tolerance test written "<" instead of "<=".
evaluate_condition_strict(v, th) ==
    IF v < th.min THEN "low"
    ELSE IF v > th.max THEN "high"
    ELSE IF 10 * Abs(v - th.optimal) < (th.max - th.min) THEN "optimal"
    ELSE "suboptimal"

_evaluate_condition(v, th) ==
    IF v < th.min THEN "low"
    ELSE IF v > th.max THEN "high"
    ELSE IF 10 * Abs(v - th.optimal) <= (th.max - th.min) THEN "optimal"
    ELSE "suboptimal"

recommendations ==
    [moisture    |-> [low |-> "Increase irrigation frequency",
                      high |-> "Reduce irrigation and improve drainage",
                      suboptimal |-> "Adjust irrigation schedule"],
     ph          |-> [low |-> "Apply lime to increase pH",
                      high |-> "Apply sulfur to decrease pH",
                      suboptimal |-> "Monitor pH levels"],
     nitrogen    |-> [low |-> "Apply nitrogen-rich fertilizer",
                      high |-> "Reduce nitrogen application",
                      suboptimal |-> "Adjust nitrogen levels gradually"],
     phosphorus  |-> [low |-> "Apply phosphate fertilizer",
                      high |-> "Reduce phosphorus application",
                      suboptimal |-> "Monitor phosphorus levels"],
     potassium   |-> [low |-> "Apply potassium-rich fertilizer",
                      high |-> "Reduce potassium application",
                      suboptimal |-> "Adjust potassium levels"],
     temperature |-> [low |-> "Consider soil warming techniques",
                      high |-> "Apply mulch for temperature regulation",
                      suboptimal |-> "Monitor soil temperature"]]

\* _generate_recommendation reading the "suboptimal" text whatever the band.
generate_recommendation_one_text(parameter, v, cond) ==
    IF parameter \in DOMAIN recommendations
       /\ cond \in DOMAIN recommendations[parameter]
    THEN Return([parameter |-> parameter, current_value |-> v, condition |-> cond,
                 action |-> recommendations[parameter]["suboptimal"]])
    ELSE Raise("KeyError")

\* The returned recommendation, or the KeyError of a failed table lookup.
_generate_recommendation(parameter, v, cond) ==
    IF parameter \in DOMAIN recommendations
       /\ cond \in DOMAIN recommendations[parameter]
    THEN Return([parameter |-> parameter, current_value |-> v, condition |-> cond,
                 action |-> recommendations[parameter][cond]])
    ELSE Raise("KeyError")

\* The loop of _analyze_reading from item i on; acc is the analysis so far.
RECURSIVE AnalyzeItems(_, _, _, _)
AnalyzeItems(th, rd, i, acc) ==
    IF i > Len(rd) THEN Return(acc)
    ELSE IF rd[i][1] = "timestamp" THEN AnalyzeItems(th, rd, i + 1, acc)
    ELSE IF rd[i][1] \notin DOMAIN th THEN Raise("KeyError")
    ELSE LET cond == _evaluate_condition(rd[i][2], th[rd[i][1]])
             conds == [p \in (DOMAIN acc.conditions) \cup {rd[i][1]} |->
                          IF p = rd[i][1] THEN cond ELSE acc.conditions[p]]
             rec == _generate_recommendation(rd[i][1], rd[i][2], cond)
         IN  IF cond = "optimal"
             THEN AnalyzeItems(th, rd, i + 1, [acc EXCEPT !.conditions = conds])
             ELSE IF rec.raised # "no" THEN rec
             ELSE AnalyzeItems(th, rd, i + 1,
                      [acc EXCEPT !.conditions = conds,
                                  !.recommendations = Append(@, rec.value)])

_analyze_reading(th, rd) ==
    IF ~HasKey(rd, "timestamp") THEN Raise("KeyError")
    ELSE AnalyzeItems(th, rd, 1,
             [timestamp |-> Lookup(rd, "timestamp"),
              conditions |-> [p \in {} |-> "optimal"],
              recommendations |-> <<>>])

(***************************************************************************)
(* ImageProcessor                                                          *)
(***************************************************************************)
\* Floats as exact rationals <<numerator, denominator>>, in lowest terms with
\* a positive denominator; <<0, 0>> is NaN, which every operation propagates.
NaN == <<0, 0>>

RECURSIVE GCD(_, _)
GCD(a, b) == IF b = 0 THEN a ELSE GCD(b, a % b)

Rat(n, d) ==
    IF d = 0 THEN NaN
    ELSE LET g == GCD(Abs(n), Abs(d))
             sgn == IF d < 0 THEN -1 ELSE 1
         IN  <<(sgn * n) \div g, (sgn * d) \div g>>

IsNaN(x) == x[2] = 0
RatAdd(x, y) == IF IsNaN(x) \/ IsNaN(y) THEN NaN ELSE Rat(x[1] * y[2] + y[1] * x[2], x[2] * y[2])
RatMul(x, y) == IF IsNaN(x) \/ IsNaN(y) THEN NaN ELSE Rat(x[1] * y[1], x[2] * y[2])
RatDiv(x, y) == IF IsNaN(x) \/ IsNaN(y) THEN NaN ELSE Rat(x[1] * y[2], x[2] * y[1])
RatLe(x, y) == ~IsNaN(x) /\ ~IsNaN(y) /\ x[1] * y[2] <= y[1] * x[2]

Max(a, b) == IF a >= b THEN a ELSE b
Min(a, b) == IF a <= b THEN a ELSE b

\* An image is the sequence of its pixels, row after row; a pixel of a valid
\* image is <<r, g, b>>, each 0..255 (uint8).  cv2.cvtColor raises cv2.error
\* on an empty array and on one whose pixels do not have three channels.
ValidImage(img) == Len(img) > 0 /\ \A i \in 1..Len(img) : Len(img[i]) = 3

\* OpenCV's 8-bit RGB -> HSV, in its fixed-point arithmetic (12 fraction
\* bits): V = max, S = 255 * (max - min) / max, H = half the hue angle in
\* degrees (0..180), each rounded.
hsv_shift == 12
RoundDiv(n, d) == (2 * n + d) \div (2 * d)
sdiv_table(v) == IF v = 0 THEN 0 ELSE RoundDiv(255 * 2^hsv_shift, v)
hdiv_table180(diff) == IF diff = 0 THEN 0 ELSE RoundDiv(180 * 2^hsv_shift, 6 * diff)

RGB2HSV(px) ==
    LET r == px[1]
        g == px[2]
        b == px[3]
        v == Max(r, Max(g, b))
        vmin == Min(r, Min(g, b))
        diff == v - vmin
        sat == (diff * sdiv_table(v) + 2^(hsv_shift - 1)) \div 2^hsv_shift
        sector == IF v = r THEN g - b
                  ELSE IF v = g THEN b - r + 2 * diff
                  ELSE r - g + 4 * diff
        hue == (sector * hdiv_table180(diff) + 2^(hsv_shift - 1)) \div 2^hsv_shift
    IN  <<IF hue < 0 THEN hue + 180 ELSE hue, sat, v>>

cvtColor_RGB2HSV(img) == [i \in 1..Len(img) |-> RGB2HSV(img[i])]

lower_green == <<35, 30, 30>>
upper_green == <<85, 255, 255>>

\* cv2.inRange with the bounds taken as exclusive.
inRange_exclusive(hsv, lower, upper) ==
    [i \in 1..Len(hsv) |->
        IF \A c \in 1..3 : lower[c] < hsv[i][c] /\ hsv[i][c] < upper[c]
        THEN 255 ELSE 0]

\* cv2.inRange: 255 where every channel lies in [lower, upper], else 0.
inRange(hsv, lower, upper) ==
    [i \in 1..Len(hsv) |->
        IF \A c \in 1..3 : lower[c] <= hsv[i][c] /\ hsv[i][c] <= upper[c]
        THEN 255 ELSE 0]

\* detect_vegetation: the mask, or None when cv2 raised.
detect_vegetation(img) ==
    IF ~ValidImage(img) THEN None
    ELSE [type |-> "ndarray",
          data |-> inRange(cvtColor_RGB2HSV(img), lower_green, upper_green)]

RECURSIVE SumSeq(_)
SumSeq(s) == IF s = <<>> THEN 0 ELSE Head(s) + SumSeq(Tail(s))

\* hsv[:,:,1] with no mask applied: the saturations of all the pixels.
MaskedSaturation_unmasked(hsv, mask) == [k \in 1..Len(hsv) |-> hsv[k][2]]

\* hsv[:,:,1][veg_mask > 0]: the saturations of the masked pixels.
MaskedSaturation(hsv, mask) ==
    LET idx == SelectSeq([i \in 1..Len(hsv) |-> i], LAMBDA i : mask[i] > 0)
    IN  [k \in 1..Len(idx) |-> hsv[idx[k]][2]]

\* np.mean: sum / count, and 0/0 = nan for an empty array (a RuntimeWarning,
\* no exception).
np_mean(s) == Rat(SumSeq(s), Len(s))

\* Coverage counting the pixels outside the mask (veg_mask == 0).
vegetation_coverage_inverted(mask) ==
    RatMul(Rat(Len(SelectSeq(mask, LAMBDA m : m = 0)), Len(mask)), <<100, 1>>)

\* (np.sum(veg_mask > 0) / veg_mask.size) * 100
vegetation_coverage(mask) ==
    RatMul(Rat(Len(SelectSeq(mask, LAMBDA m : m > 0)), Len(mask)), <<100, 1>>)

\* (0.6 * (coverage / 100) + 0.4 * (saturation / 255)) * 100
health_score(coverage, saturation) ==
    RatMul(RatAdd(RatMul(<<6, 10>>, RatDiv(coverage, <<100, 1>>)),
                  RatMul(<<4, 10>>, RatDiv(saturation, <<255, 1>>))),
           <<100, 1>>)

\* analyze_plant_health: the metrics dict, or None when an exception was caught.
analyze_plant_health(img) ==
    IF ~ValidImage(img) THEN None
    ELSE LET hsv == cvtColor_RGB2HSV(img)
             mask == detect_vegetation(img)
         IN  IF mask = None THEN None
             ELSE LET coverage == vegetation_coverage(mask.data)
                      saturation == np_mean(MaskedSaturation(hsv, mask.data))
                  IN  [type |-> "dict",
                       vegetation_coverage |-> coverage,
                       average_saturation |-> saturation,
                       health_score |-> health_score(coverage, saturation)]

(***************************************************************************)
(* DroneController                                                         *)
(***************************************************************************)
\* DroneController.__init__: self.status and self.home_coordinates.
InitialStatus ==
    [battery |-> 100, latitude |-> 0, longitude |-> 0, altitude |-> 0,
     is_flying |-> FALSE, mission_status |-> "idle"]

InitialHome == <<0, 0>>

mission_steps ==
    <<"Taking off", "Reaching survey altitude", "Starting field scan",
      "Capturing images", "Analyzing field coverage", "Completing mission">>

\* What one mission step drains, and the level below which the loop breaks.
BatteryDrain == 5
LowBattery == 20

\* No DroneController method running: no locals, nothing returned yet.
DroneReady == [pc |-> "ready", op |-> "none", step |-> 0, low_battery |-> FALSE]

DroneIdle ==
    /\ status = InitialStatus
    /\ home_coordinates = InitialHome
    /\ drone = DroneReady
    /\ missions = 0

(***************************************************************************)
(* The callers' states outside the specification at hand                   *)
(***************************************************************************)
\* The two callers whose calls interleave.
Threads == {"t1", "t2"}

\* A caller between calls: no operation, no locals.
IdleCall == [pc |-> "idle", op |-> "none", reading |-> <<>>, image |-> <<>>,
             analysis |-> None, result |-> NotCalled]

\* The files of data/soil_readings, by name: soil_reading_<n>.json is n, the
\* second it was written in.  What a file holds is not modelled.
NoFiles == {}

SoilIdle ==
    /\ thresholds = InitialThresholds
    /\ latest_reading = None
    /\ files = NoFiles
    /\ now = 0
    /\ call = [t \in Threads |-> IdleCall]

ClassifyIdle == value = 0 /\ param = "moisture" /\ condition = "not called"

EvalIdle == reading = <<>> /\ analysis = NotCalled

ImageIdle == image_array = <<>> /\ veg_mask = NotCalled /\ metrics = NotCalled

(***************************************************************************)
(* _evaluate_condition on every value around each row of the table         *)
(***************************************************************************)
\* How far below min and above max the classified values reach, in eighths.
Margin == 16

ClassifyValues(p) ==
    (InitialThresholds[p].min - Margin)..(InitialThresholds[p].max + Margin)

InitClassify ==
    /\ param \in ParamSet
    /\ value \in ClassifyValues(param)
    /\ condition = "not called"
    /\ SoilIdle /\ EvalIdle /\ ImageIdle /\ DroneIdle

EvaluateCondition ==
    /\ condition = "not called"
    /\ condition' = _evaluate_condition(value, thresholds[param])
    /\ UNCHANGED <<value, param, soilVars, evalVars, imageVars,
                   droneVars>>

NextClassify == EvaluateCondition

SpecClassify == InitClassify /\ [][NextClassify]_vars

(***************************************************************************)
(* _analyze_reading on bounded readings                                    *)
(***************************************************************************)
\* How many parameters of an input reading differ from their optimal point.
MaxDeviating == 2

\* The values tried for a parameter: around min, around the edges of the
\* optimal band, and around max.
ProbeSeq(p) ==
    LET th == InitialThresholds[p]
        tol == (th.max - th.min) \div 10
    IN  <<th.min - 1, th.min, th.optimal - tol - 1, th.optimal - tol,
          th.optimal + tol, th.optimal + tol + 1, th.max, th.max + 1>>

Deviations(n) ==
    UNION {[D -> 1..Len(ProbeSeq("ph"))] :
              D \in {S \in SUBSET ParamSet : Cardinality(S) <= n}}

ValuesOf(g) ==
    [p \in ParamSet |-> IF p \in DOMAIN g THEN ProbeSeq(p)[g[p]]
                        ELSE InitialThresholds[p].optimal]

Reverse(s) == [i \in 1..Len(s) |-> s[Len(s) + 1 - i]]

\* The dict {"timestamp": ts, order[1]: vals[order[1]], ...}.
MakeReading(ts, order, vals) ==
    <<<<"timestamp", ts>>>> \o [i \in 1..Len(order) |-> <<order[i], vals[order[i]]>>]

Without(rd, key) == SelectSeq(rd, LAMBDA kv : kv[1] # key)

\* The two readings the specification's examples name.
AllOptimalExample ==
    MakeReading(0, Params,
        [moisture |-> 50 * Unit, ph |-> (65 * Unit) \div 10, nitrogen |-> 60 * Unit,
         phosphorus |-> 45 * Unit, potassium |-> 50 * Unit, temperature |-> 25 * Unit])

MoistureLowExample ==
    MakeReading(0, Params,
        [moisture |-> 5 * Unit, ph |-> (65 * Unit) \div 10, nitrogen |-> 60 * Unit,
         phosphorus |-> 45 * Unit, potassium |-> 50 * Unit, temperature |-> 25 * Unit])

FullReadings(n) ==
    {MakeReading(0, order, ValuesOf(g)) :
        order \in {Params, Reverse(Params)}, g \in Deviations(n)}

\* Readings that lack a key, or hold a key the table does not know.
MalformedReadings ==
    LET few == IF MaxDeviating > 0 THEN MaxDeviating - 1 ELSE 0
    IN  UNION {{Without(rd, k) : k \in ParamSet \cup {"timestamp"}}
               \cup {Append(rd, <<"calcium", 0>>)} : rd \in FullReadings(few)}

ReadingInputs ==
    FullReadings(MaxDeviating) \cup MalformedReadings
        \cup {AllOptimalExample, MoistureLowExample}

InitEval ==
    /\ reading \in ReadingInputs
    /\ analysis = NotCalled
    /\ SoilIdle /\ ClassifyIdle /\ ImageIdle /\ DroneIdle

AnalyzeReading ==
    /\ analysis = NotCalled
    /\ analysis' = _analyze_reading(thresholds, reading)
    /\ UNCHANGED <<reading, soilVars, classifyVars, imageVars,
                   droneVars>>

NextEval == AnalyzeReading

SpecEval == InitEval /\ [][NextEval]_vars

(***************************************************************************)
(* Claims about the soil classification                                    *)
(***************************************************************************)
Bands == {"low", "high", "optimal", "suboptimal"}

\* C1: for every row {min, max, optimal} of the threshold table and every
\* value v, the classification returns exactly one of the four bands, by the
\* rules in this order: low if v < min; otherwise high if v > max; otherwise
\* optimal if |v - optimal| <= 0.1 * (max - min); otherwise suboptimal.
C1_BandsPartition ==
    condition # "not called" =>
        LET th == thresholds[param]
            within == value >= th.min /\ value <= th.max
            near == 10 * Abs(value - th.optimal) <= th.max - th.min
        IN  /\ condition \in Bands
            /\ (condition = "low") <=> (value < th.min)
            /\ (condition = "high") <=> (value >= th.min /\ value > th.max)
            /\ (condition = "optimal") <=> (within /\ near)
            /\ (condition = "suboptimal") <=> (within /\ ~near)

\* C1 witness: a value exactly on the edge of the tolerance band (moisture 56,
\* six away from 50 with 0.1 * (80 - 20) = 6) has been classified optimal.
C1_Witness ==
    /\ param = "moisture"
    /\ value = 56 * Unit
    /\ condition = "optimal"

\* The parameters of a reading, in the reading's order.
ParamsOf(rd) == [i \in 1..Len(Without(rd, "timestamp")) |-> Without(rd, "timestamp")[i][1]]

HoldsSixParameters(rd) == HasKey(rd, "timestamp") /\ Keys(rd) = ParamSet \cup {"timestamp"}

\* C2: for every reading holding the six recognized parameters, the
\* recommendations hold exactly one entry for each parameter whose band is not
\* optimal and none for an optimal one, in the reading's order, each with the
\* parameter's name, value, band and the table's action text; the lookup
\* succeeds for all 6 x 3 (parameter, non-optimal band) pairs; a reading whose
\* only non-optimal value is moisture below min yields the one moisture
\* recommendation with the irrigation-increase text.
C2_Recommendations ==
    /\ \A p \in ParamSet : \A b \in Bands \ {"optimal"} :
           _generate_recommendation(p, 0, b).raised = "no"
    /\ (analysis # NotCalled /\ HoldsSixParameters(reading)) =>
          /\ analysis.raised = "no"
          /\ DOMAIN analysis.value.conditions = ParamSet
          /\ LET a == analysis.value
                 nonopt == SelectSeq(ParamsOf(reading),
                                     LAMBDA p : a.conditions[p] # "optimal")
             IN  /\ Len(a.recommendations) = Len(nonopt)
                 /\ \A i \in 1..Len(nonopt) :
                        a.recommendations[i] =
                            [parameter |-> nonopt[i],
                             current_value |-> Lookup(reading, nonopt[i]),
                             condition |-> a.conditions[nonopt[i]],
                             action |-> recommendations[nonopt[i]][a.conditions[nonopt[i]]]]
                 /\ (/\ Lookup(reading, "moisture") < 20 * Unit
                     /\ \A p \in ParamSet \ {"moisture"} : a.conditions[p] = "optimal")
                    => a.recommendations =
                           <<[parameter |-> "moisture",
                              current_value |-> Lookup(reading, "moisture"),
                              condition |-> "low",
                              action |-> "Increase irrigation frequency"]>>

\* C2 witness: the reading with moisture 5 and every other value optimal has
\* been analysed, with one recommendation.
C2_Witness ==
    /\ reading = MoistureLowExample
    /\ analysis.raised = "no"
    /\ Len(analysis.value.recommendations) = 1

IsAllOptimalPoints(rd) ==
    /\ HoldsSixParameters(rd)
    /\ Lookup(rd, "moisture") = 50 * Unit
    /\ 10 * Lookup(rd, "ph") = 65 * Unit
    /\ Lookup(rd, "nitrogen") = 60 * Unit
    /\ Lookup(rd, "phosphorus") = 45 * Unit
    /\ Lookup(rd, "potassium") = 50 * Unit
    /\ Lookup(rd, "temperature") = 25 * Unit

\* C3: the reading moisture 50, ph 6.5, nitrogen 60, phosphorus 45, potassium
\* 50, temperature 25 is evaluated to the band optimal for all six parameters
\* and to an empty recommendation list.
C3_OptimalPoints ==
    (analysis # NotCalled /\ IsAllOptimalPoints(reading)) =>
        /\ analysis.raised = "no"
        /\ analysis.value.conditions = [p \in ParamSet |-> "optimal"]
        /\ analysis.value.recommendations = <<>>

\* C3 witness: that reading has been analysed.
C3_Witness ==
    /\ IsAllOptimalPoints(reading)
    /\ analysis.raised = "no"
    /\ analysis.value.recommendations = <<>>

\* C4 (as claimed): evaluating a reading that lacks one of the six recognized
\* parameters fails with an error; it never returns a SoilAnalysis.
C4_MissingParameterFails ==
    (analysis # NotCalled /\ \E p \in ParamSet : ~HasKey(reading, p)) =>
        analysis.raised # "no"

(***************************************************************************)
(* ImageProcessor on bounded images                                        *)
(***************************************************************************)
\* The most pixels an input image has.
MaxPixels == 2

\* Colours on both sides of every edge of the green range: hue 34|35 and
\* 85|86, saturation 29|30, value 29|30; and black, gray and pure green.
Palette ==
    {<<0, 0, 0>>, <<128, 128, 128>>, <<0, 255, 0>>,
     <<217, 255, 0>>, <<209, 255, 0>>, <<0, 255, 209>>, <<0, 255, 217>>,
     <<226, 255, 226>>, <<225, 255, 225>>, <<0, 29, 0>>, <<0, 30, 0>>}

\* The empty array and a one-channel (grayscale) image: cv2.cvtColor raises.
MalformedImages == {<<>>, <<<<128>>>>}

ImageInputs ==
    UNION {[1..n -> Palette] : n \in 1..MaxPixels} \cup MalformedImages

InitImage ==
    /\ image_array \in ImageInputs
    /\ veg_mask = NotCalled
    /\ metrics = NotCalled
    /\ SoilIdle /\ ClassifyIdle /\ EvalIdle /\ DroneIdle

DetectVegetation ==
    /\ veg_mask = NotCalled
    /\ veg_mask' = Return(detect_vegetation(image_array))
    /\ UNCHANGED <<image_array, metrics, soilVars, classifyVars, evalVars,
                   droneVars>>

AnalyzePlantHealth ==
    /\ metrics = NotCalled
    /\ metrics' = Return(analyze_plant_health(image_array))
    /\ UNCHANGED <<image_array, veg_mask, soilVars, classifyVars, evalVars,
                   droneVars>>

NextImage == DetectVegetation \/ AnalyzePlantHealth

SpecImage == InitImage /\ [][NextImage]_vars

(***************************************************************************)
(* Claims about vegetation detection and plant-health scoring              *)
(***************************************************************************)
Scored == metrics.raised = "no" /\ metrics.value # None

\* What the claims call a vegetation pixel.
IsVegetation(px) ==
    LET hsv == RGB2HSV(px)
    IN  hsv[1] >= 35 /\ hsv[1] <= 85 /\ hsv[2] >= 30 /\ hsv[3] >= 30

VegetationPixels(img) ==
    IF ValidImage(img) THEN {i \in 1..Len(img) : IsVegetation(img[i])} ELSE {}

RECURSIVE SaturationSum(_, _)
SaturationSum(img, S) ==
    IF S = {} THEN 0
    ELSE LET i == CHOOSE j \in S : TRUE
         IN  RGB2HSV(img[i])[2] + SaturationSum(img, S \ {i})

\* C5 (as claimed): when the vegetation mask selects zero pixels, scoring ends
\* in a failure or None; it never returns a metrics record whose
\* average_saturation or health_score is not a number.
C5_NoNaNMetrics ==
    (metrics.raised = "no" /\ ValidImage(image_array)
        /\ VegetationPixels(image_array) = {}) =>
        \/ metrics.value = None
        \/ /\ ~IsNaN(metrics.value.average_saturation)
           /\ ~IsNaN(metrics.value.health_score)

\* C6: for every image with at least one vegetation pixel, health_score =
\* 100 * (0.6 * coverage_pct / 100 + 0.4 * avg_saturation / 255), where
\* coverage_pct is 100 times the share of vegetation pixels and avg_saturation
\* the mean saturation over the vegetation pixels only; the score lies in
\* 0..100 and is 100 when every pixel is vegetation with saturation 255.
C6_HealthScore ==
    (metrics.raised = "no" /\ ValidImage(image_array)
        /\ VegetationPixels(image_array) # {}) =>
        LET veg == VegetationPixels(image_array)
            c == Cardinality(veg)
            n == Len(image_array)
            sat == SaturationSum(image_array, veg)
            m == metrics.value
        IN  /\ m # None
            /\ m.vegetation_coverage[1] * n = m.vegetation_coverage[2] * 100 * c
            /\ m.average_saturation[1] * c = m.average_saturation[2] * sat
            /\ m.health_score[2] > 0
            \* score = 60 * c / n + 40 * sat / (255 * c)
            /\ m.health_score[1] * (255 * c * n)
                   = m.health_score[2] * (60 * c * 255 * c + 40 * sat * n)
            /\ RatLe(<<0, 1>>, m.health_score) /\ RatLe(m.health_score, <<100, 1>>)
            /\ (c = n /\ sat = 255 * c) => m.health_score = <<100, 1>>

\* C6 witness: a pure-green pixel beside a gray one has been scored: coverage
\* 50, saturation 255 (the green pixel alone), score 70.
C6_Witness ==
    /\ Scored
    /\ image_array = <<<<0, 255, 0>>, <<128, 128, 128>>>>
    /\ metrics.value.average_saturation = <<255, 1>>
    /\ metrics.value.health_score = <<70, 1>>

\* The palette colours inside the green range: hue 35 and 85, saturation 30,
\* value 30, and pure green.
GreenColours ==
    {<<0, 255, 0>>, <<209, 255, 0>>, <<0, 255, 209>>, <<225, 255, 225>>, <<0, 30, 0>>}

\* C7: a pixel is in the vegetation mask exactly when its hue lies in 35..85
\* and its saturation and value are each at least 30; every other pixel
\* (near-black, near-gray) is left out; the mask has one entry per pixel.
C7_VegetationMask ==
    (veg_mask.raised = "no" /\ ValidImage(image_array)) =>
        /\ veg_mask.value # None
        /\ Len(veg_mask.value.data) = Len(image_array)
        /\ \A i \in 1..Len(image_array) :
              /\ veg_mask.value.data[i] \in {0, 255}
              /\ (veg_mask.value.data[i] = 255) <=> IsVegetation(image_array[i])
              /\ (veg_mask.value.data[i] = 255) <=> (image_array[i] \in GreenColours)

\* C7 witness: the mask of a hue-35 pixel beside a hue-34 pixel is <<255, 0>>.
C7_Witness ==
    /\ image_array = <<<<209, 255, 0>>, <<217, 255, 0>>>>
    /\ veg_mask.raised = "no"
    /\ veg_mask.value # None
    /\ veg_mask.value.data = <<255, 0>>

\* The share of vegetation pixels of an image, <<count, pixels>>.
ShareOf(img) == <<Cardinality(VegetationPixels(img)), Len(img)>>

\* Whether share x is at most share y.
ShareLe(x, y) == x[1] * y[2] <= y[1] * x[2]

\* What analyze_plant_health returns for every input image with at least one
\* vegetation pixel, beside the image's share of vegetation pixels.
ScoredInputs ==
    {[share |-> ShareOf(img), metrics |-> analyze_plant_health(img)] :
        img \in {i \in ImageInputs : VegetationPixels(i) # {}}}

\* C10: of two inputs that both have a vegetation pixel and the same average
\* saturation, the one with the larger coverage never gets the smaller score.
C10_CoverageMonotone ==
    (Scored /\ VegetationPixels(image_array) # {}) =>
        \A other \in ScoredInputs :
            (/\ other.metrics.average_saturation = metrics.value.average_saturation
             /\ ShareLe(ShareOf(image_array), other.share))
            => RatLe(metrics.value.health_score, other.metrics.health_score)

\* C10 witness: a scored input for which another input has the same average
\* saturation, a strictly larger coverage and a strictly larger score.
C10_Witness ==
    /\ Scored
    /\ VegetationPixels(image_array) # {}
    /\ \E other \in ScoredInputs :
           /\ other.metrics.average_saturation = metrics.value.average_saturation
           /\ ~ShareLe(other.share, ShareOf(image_array))
           /\ ~RatLe(other.metrics.health_score, metrics.value.health_score)

(***************************************************************************)
(* SoilAnalyzer and ImageProcessor called by two interleaving callers      *)
(***************************************************************************)
\* The last second of the clock.
MaxTime == 1

\* The sensor simulation draws each value from SampleSteps + 1 evenly spaced
\* points of its range.
SampleSteps == 1

\* random.uniform(lo, hi) of _simulate_sensor_reading, per parameter.
SensorRange ==
    [moisture    |-> <<30 * Unit, 70 * Unit>>,
     ph          |-> <<(55 * Unit) \div 10, (75 * Unit) \div 10>>,
     nitrogen    |-> <<40 * Unit, 80 * Unit>>,
     phosphorus  |-> <<30 * Unit, 60 * Unit>>,
     potassium   |-> <<35 * Unit, 65 * Unit>>,
     temperature |-> <<15 * Unit, 30 * Unit>>]

SamplePoint(p, k) ==
    SensorRange[p][1] + ((SensorRange[p][2] - SensorRange[p][1]) * k) \div SampleSteps

\* The simulated readings at time ts: sample s puts the j-th parameter at
\* point (s + j) mod (SampleSteps + 1) of its range.
_simulate_sensor_reading(ts) ==
    {MakeReading(ts, Params,
         [p \in ParamSet |->
             LET j == CHOOSE i \in 1..Len(Params) : Params[i] = p
             IN  SamplePoint(p, (s + j) % (SampleSteps + 1))]) :
        s \in 0..SampleSteps}

\* The readings passed to _analyze_reading directly, and the images scored.
EvalInputs == {AllOptimalExample, MoistureLowExample}
PlantInputs == {<<<<0, 255, 0>>>>, <<<<0, 255, 0>>, <<128, 128, 128>>>>}

Dict(items) == [type |-> "dict", items |-> items]
Str(text) == [type |-> "str", text |-> text]

CanCall(t) == call[t].pc \in {"idle", "returned"}

\* The clock moves on.
Tick ==
    /\ now < MaxTime
    /\ now' = now + 1
    /\ UNCHANGED <<thresholds, latest_reading, files, call, classifyVars, evalVars,
                   imageVars,
                   droneVars>>

\* analyze_soil, line 29: the simulated reading.
SimulateReading(t) ==
    /\ CanCall(t)
    /\ \E rd \in _simulate_sensor_reading(now) :
           call' = [call EXCEPT ![t] = [IdleCall EXCEPT !.pc = "simulated",
                                            !.op = "analyze_soil", !.reading = rd]]
    /\ UNCHANGED <<thresholds, latest_reading, files, now, classifyVars, evalVars,
                   imageVars,
                   droneVars>>

\* analyze_soil storing the reading in self.latest_reading before the analysis
\* and analysing self.latest_reading.
AnalyzeLocal_shared(t) ==
    /\ call[t].pc = "simulated"
    /\ LET rd == IF latest_reading # None THEN latest_reading.items ELSE call[t].reading
           r == _analyze_reading(thresholds, rd)
       IN  call' = [call EXCEPT ![t] =
                       IF r.raised = "no"
                       THEN [@ EXCEPT !.pc = "analyzed", !.analysis = Dict(r.value)]
                       ELSE [@ EXCEPT !.pc = "returned", !.result = Return(None)]]
    /\ UNCHANGED <<thresholds, latest_reading, files, now, classifyVars, evalVars,
                   imageVars,
                   droneVars>>

\* analyze_soil, line 32: the analysis of the local reading; an exception
\* ends the call with None (lines 40-42).
AnalyzeLocal(t) ==
    /\ call[t].pc = "simulated"
    /\ LET r == _analyze_reading(thresholds, call[t].reading)
       IN  call' = [call EXCEPT ![t] =
                       IF r.raised = "no"
                       THEN [@ EXCEPT !.pc = "analyzed", !.analysis = Dict(r.value)]
                       ELSE [@ EXCEPT !.pc = "returned", !.result = Return(None)]]
    /\ UNCHANGED <<thresholds, latest_reading, files, now, classifyVars, evalVars,
                   imageVars,
                   droneVars>>

\* analyze_soil, line 35: _save_reading writes soil_reading_<now>.json, or
\* fails to and logs it.
SaveReading(t) ==
    /\ call[t].pc = "analyzed"
    /\ \/ files' = files \cup {now}
       \/ files' = files
    /\ call' = [call EXCEPT ![t].pc = "saved"]
    /\ UNCHANGED <<thresholds, latest_reading, now, classifyVars, evalVars, imageVars,
                   droneVars>>

\* analyze_soil, lines 37-38: self.latest_reading = reading; return analysis.
StoreLatest(t) ==
    /\ call[t].pc = "saved"
    /\ latest_reading' = Dict(call[t].reading)
    /\ call' = [call EXCEPT ![t].pc = "returned", ![t].result = Return(call[t].analysis)]
    /\ UNCHANGED <<thresholds, files, now, classifyVars, evalVars, imageVars,
                   droneVars>>

\* get_latest_reading.
GetLatestReading(t) ==
    /\ CanCall(t)
    /\ call' = [call EXCEPT ![t] =
                   [IdleCall EXCEPT !.pc = "returned", !.op = "get_latest_reading",
                        !.result = Return(IF latest_reading # None THEN latest_reading
                                          ELSE Str("No readings available"))]]
    /\ UNCHANGED <<thresholds, latest_reading, files, now, classifyVars, evalVars,
                   imageVars,
                   droneVars>>

\* _analyze_reading stamping the analysis with datetime.now() instead of the
\* reading's timestamp.
EvaluateReading_clock(t) ==
    /\ CanCall(t)
    /\ \E rd \in EvalInputs :
           LET r == _analyze_reading(thresholds, rd)
           IN  call' = [call EXCEPT ![t] =
                   [IdleCall EXCEPT !.pc = "returned", !.op = "_analyze_reading",
                        !.reading = rd,
                        !.result = IF r.raised = "no"
                                   THEN Return(Dict([r.value EXCEPT !.timestamp = now]))
                                   ELSE r]]
    /\ UNCHANGED <<thresholds, latest_reading, files, now, classifyVars, evalVars,
                   imageVars,
                   droneVars>>

\* _analyze_reading called on a reading the caller supplies.
EvaluateReading(t) ==
    /\ CanCall(t)
    /\ \E rd \in EvalInputs :
           LET r == _analyze_reading(thresholds, rd)
           IN  call' = [call EXCEPT ![t] =
                   [IdleCall EXCEPT !.pc = "returned", !.op = "_analyze_reading",
                        !.reading = rd,
                        !.result = IF r.raised = "no" THEN Return(Dict(r.value)) ELSE r]]
    /\ UNCHANGED <<thresholds, latest_reading, files, now, classifyVars, evalVars,
                   imageVars,
                   droneVars>>

\* analyze_plant_health called on an image the caller supplies.
ScoreImage(t) ==
    /\ CanCall(t)
    /\ \E img \in PlantInputs :
           call' = [call EXCEPT ![t] =
               [IdleCall EXCEPT !.pc = "returned", !.op = "analyze_plant_health",
                    !.image = img, !.result = Return(analyze_plant_health(img))]]
    /\ UNCHANGED <<thresholds, latest_reading, files, now, classifyVars, evalVars,
                   imageVars,
                   droneVars>>

Init == SoilIdle /\ ClassifyIdle /\ EvalIdle /\ ImageIdle /\ DroneIdle

Next ==
    \/ Tick
    \/ \E t \in Threads : SimulateReading(t)
    \/ \E t \in Threads : AnalyzeLocal(t)
    \/ \E t \in Threads : SaveReading(t)
    \/ \E t \in Threads : StoreLatest(t)
    \/ \E t \in Threads : GetLatestReading(t)
    \/ \E t \in Threads : EvaluateReading(t)
    \/ \E t \in Threads : ScoreImage(t)

Spec == Init /\ [][Next]_vars

(***************************************************************************)
(* Claims about interleaved calls                                          *)
(***************************************************************************)
Returned(t, op) == call[t].pc = "returned" /\ call[t].op = op

\* What a call returns when it runs alone on a new analyzer.
AloneAnalysis(rd) ==
    LET r == _analyze_reading(InitialThresholds, rd)
    IN  IF r.raised = "no" THEN Return(Dict(r.value)) ELSE Return(None)

\* Every returned call holds the result it would hold had it run alone.
ResultsAsAlone ==
    \A t \in Threads :
        /\ Returned(t, "analyze_soil") => call[t].result = AloneAnalysis(call[t].reading)
        /\ Returned(t, "analyze_plant_health") =>
               call[t].result = Return(analyze_plant_health(call[t].image))

C9_Idempotent ==
    /\ thresholds = InitialThresholds
    /\ \A t \in Threads : Returned(t, "_analyze_reading") => call[t].reading \in EvalInputs
    /\ \A t1, t2 \in Threads :
           (/\ Returned(t1, "_analyze_reading")
            /\ Returned(t2, "_analyze_reading")
            /\ call[t1].reading = call[t2].reading)
           => call[t1].result = call[t2].result

\* C9 witness: both callers have evaluated the moisture-5 reading, with an
\* analyze_soil call completed and the clock advanced at some point.
C9_Witness ==
    /\ \A t \in Threads :
           /\ Returned(t, "_analyze_reading")
           /\ call[t].reading = MoistureLowExample
           /\ call[t].result.raised = "no"
    /\ latest_reading # None
    /\ files # NoFiles
    /\ now = MaxTime

(***************************************************************************)
(* DroneController called in sequence: start_mission, return_to_home and   *)
(* emergency_stop, one call at a time, each in the steps its time.sleep    *)
(* calls separate.  connect() cannot fail, so start_mission's except       *)
(* branch (lines 47-50) is never taken.                                    *)
(***************************************************************************)
\* The most start_mission calls made on one controller.
MaxMissions == 8

otherVars == <<soilVars, classifyVars, evalVars, imageVars>>

\* start_mission, line 35: connect() sets mission_status and returns True.
StartMission ==
    /\ drone.pc = "ready"
    /\ missions < MaxMissions
    /\ missions' = missions + 1
    /\ status' = [status EXCEPT !.mission_status = "connected"]
    /\ drone' = [pc |-> "connected", op |-> "start_mission", step |-> 0,
                 low_battery |-> FALSE]
    /\ UNCHANGED <<home_coordinates, otherVars>>

\* start_mission, lines 38-40: the drone is flying, the mission in progress.
BeginMission ==
    /\ drone.pc = "connected"
    /\ status' = [status EXCEPT !.is_flying = TRUE, !.mission_status = "in_progress"]
    /\ drone' = [drone EXCEPT !.pc = "executing", !.step = 1]
    /\ UNCHANGED <<home_coordinates, missions, otherVars>>

\* _execute_mission_steps, lines 64-73: one turn of the loop; it ends after
\* the last step, or with the break once the battery is below 20.
MissionStep ==
    /\ drone.pc = "executing"
    /\ LET battery == status.battery - BatteryDrain
       IN  /\ status' = [status EXCEPT !.mission_status = mission_steps[drone.step],
                                       !.battery = battery]
           /\ drone' = IF battery < LowBattery
                       THEN [drone EXCEPT !.pc = "executed", !.low_battery = TRUE]
                       ELSE IF drone.step = Len(mission_steps)
                       THEN [drone EXCEPT !.pc = "executed"]
                       ELSE [drone EXCEPT !.step = @ + 1]
    /\ UNCHANGED <<home_coordinates, missions, otherVars>>

\* start_mission, line 45: return True.
MissionReturn ==
    /\ drone.pc = "executed"
    /\ drone' = [drone EXCEPT !.pc = "ready"]
    /\ UNCHANGED <<status, home_coordinates, missions, otherVars>>

\* return_to_home, lines 96-98, called by the user.
ReturnToHome ==
    /\ drone.pc = "ready"
    /\ status' = [status EXCEPT !.mission_status = "returning_home", !.is_flying = FALSE]
    /\ drone' = [DroneReady EXCEPT !.pc = "going_home", !.op = "return_to_home"]
    /\ UNCHANGED <<home_coordinates, missions, otherVars>>

\* emergency_stop, lines 117-118.
EmergencyStop ==
    /\ drone.pc = "ready"
    /\ status' = [status EXCEPT !.mission_status = "emergency_landing"]
    /\ drone' = [DroneReady EXCEPT !.pc = "stopping", !.op = "emergency_stop"]
    /\ UNCHANGED <<home_coordinates, missions, otherVars>>

\* emergency_stop, line 119: return_to_home, lines 96-98.
EmergencyReturn ==
    /\ drone.pc = "stopping"
    /\ status' = [status EXCEPT !.mission_status = "returning_home", !.is_flying = FALSE]
    /\ drone' = [drone EXCEPT !.pc = "going_home"]
    /\ UNCHANGED <<home_coordinates, missions, otherVars>>

\* return_to_home, lines 103-105: at the home coordinates, landed.
Land ==
    /\ drone.pc = "going_home"
    /\ status' = [status EXCEPT !.latitude = home_coordinates[1],
                                !.longitude = home_coordinates[2],
                                !.mission_status = "landed"]
    /\ drone' = [drone EXCEPT !.pc = "ready"]
    /\ UNCHANGED <<home_coordinates, missions, otherVars>>

\* A new DroneController, lines 7-19, and nothing else in use.
InitDrone == DroneIdle /\ SoilIdle /\ ClassifyIdle /\ EvalIdle /\ ImageIdle

NextDrone ==
    \/ StartMission
    \/ BeginMission
    \/ MissionStep
    \/ MissionReturn
    \/ ReturnToHome
    \/ EmergencyStop
    \/ EmergencyReturn
    \/ Land

SpecDrone == InitDrone /\ [][NextDrone]_vars

(***************************************************************************)
(* Claims about the drone                                                  *)
(***************************************************************************)
\* C11 (as claimed): in every state reachable from a new DroneController by
\* start_mission, return_to_home and emergency_stop calls the battery level
\* is between 0 and 100; it starts at 100 and never rises.
C11_BatteryInRange ==
    /\ status.battery = 100
    /\ [](status.battery >= 0 /\ status.battery <= 100)
    /\ [][status'.battery <= status.battery]_vars

StartMissionReturned == drone.pc = "ready" /\ drone.op = "start_mission"

\* C12 (as claimed): whenever a mission is cut short because the battery
\* dropped below 20 during a step, the drone has returned home by the time
\* start_mission returns (is_flying False, mission_status landed, latitude and
\* longitude the home coordinates); so no state after start_mission returns
\* has is_flying True with the battery below 20.
C12_LowBatteryReturnsHome ==
    StartMissionReturned =>
        /\ drone.low_battery =>
              /\ ~status.is_flying
              /\ status.mission_status = "landed"
              /\ <<status.latitude, status.longitude>> = home_coordinates
        /\ ~(status.is_flying /\ status.battery < LowBattery)

=============================================================================
